---- MODULE Spec2Model ----
(***************************************************************************)
(* Model of the expression evaluator in src/src/main.rs:                   *)
(*     tokenise -> shunting_yard -> evaluate_rpn                            *)
(* The three stages are modelled step by step (one action per character    *)
(* or token the code's for_each closure handles, one action for the code   *)
(* after each loop), and as operators that fold the same step operators,   *)
(* so that the result of a second expression can be named in a formula.    *)
(*                                                                         *)
(* Scalars.  The code computes in f32.  A scalar is modelled as            *)
(*   <<"fin", s, n, d>>  the f32 that is exactly s * n / d (n/d reduced,   *)
(*                       d a power of two, n below 2^24; n = 0 is a        *)
(*                       signed zero),                                     *)
(*   <<"inf", s, 0, 1>>  an infinity,   <<"nan", 1, 0, 1>>  a NaN,          *)
(*   <<"sym", op, l, r>> the f32 the operation op gives on l and r, when   *)
(*                       that f32 is not one the model computes exactly    *)
(*                       (a rounded result, a fractional power).           *)
(* Two "sym" scalars are equal only when they are the same operation on    *)
(* the same operands, so equality in the model implies equality of the     *)
(* f32 the code prints.                                                    *)
(***************************************************************************)
EXTENDS Integers, Sequences, FiniteSets, TLC

VARIABLES expression, pc, i, number_buffer, tokens, output, stack,
          values, result, error

vars == <<expression, pc, i, number_buffer, tokens, output, stack,
          values, result, error>>

(***************************************************************************)
(* Bounds of the model.                                                    *)
(***************************************************************************)
MaxLen == 4

MaxYardLen == 5

MaxNodes == 6

(***************************************************************************)
(* f32: 24 bits of significand.                                            *)
(***************************************************************************)
MantissaBits == 24

RECURSIVE Pow2(_)
Pow2(k) == IF k = 0 THEN 1 ELSE 2 * Pow2(k - 1)

MantissaLimit == Pow2(MantissaBits)

\* Largest magnitude the model multiplies out; beyond it a result is "sym".
WorkLimit == Pow2(30)

RECURSIVE Gcd(_, _)
Gcd(a, b) == IF b = 0 THEN a ELSE Gcd(b, a % b)

RECURSIVE IsPow2(_)
IsPow2(d) == IF d = 1 THEN TRUE ELSE IF d % 2 = 1 THEN FALSE ELSE IsPow2(d \div 2)

\* a * b, or -1 when the product leaves the range the model multiplies out.
SafeMul(a, b) ==
  IF a < 0 \/ b < 0 THEN -1
  ELSE IF a = 0 \/ b = 0 THEN 0
  ELSE IF b <= WorkLimit \div a THEN a * b ELSE -1

Fin(s, n, d) == <<"fin", s, n, d>>
Inf(s) == <<"inf", s, 0, 1>>
NaN == <<"nan", 1, 0, 1>>
Sym(op, l, r) == <<"sym", op, l, r>>
Inexact == <<"inexact", 1, 0, 1>>

Kind(v) == v[1]
Sign(v) == v[2]
Num(v) == v[3]
Den(v) == v[4]
IsZero(v) == Kind(v) = "fin" /\ Num(v) = 0
IsInteger(v) == Kind(v) = "fin" /\ Den(v) = 1
IsOddInteger(v) == IsInteger(v) /\ Num(v) % 2 = 1
IsOne(v) == v = Fin(1, 1, 1)

\* The f32 equal to s * n / d when it is one the model holds exactly.
MkFin(s, n, d) ==
  IF n < 0 \/ d <= 0 THEN Inexact
  ELSE IF n = 0 THEN Fin(s, 0, 1)
  ELSE LET g == Gcd(n, d)
           rn == n \div g
           rd == d \div g
       IN IF rn < MantissaLimit /\ rd <= MantissaLimit /\ IsPow2(rd)
          THEN Fin(s, rn, rd) ELSE Inexact

Neg(v) == IF Kind(v) \in {"fin", "inf"} THEN <<v[1], -v[2], v[3], v[4]>> ELSE v

\* left + right (IEEE 754, round to nearest).
FAdd(x, y) ==
  IF Kind(x) = "nan" \/ Kind(y) = "nan" THEN NaN
  ELSE IF Kind(x) = "inf" /\ Kind(y) = "inf"
       THEN (IF Sign(x) = Sign(y) THEN x ELSE NaN)
  ELSE IF Kind(x) = "inf" THEN x
  ELSE IF Kind(y) = "inf" THEN y
  ELSE IF IsZero(x) /\ IsZero(y)
       THEN Fin(IF Sign(x) = -1 /\ Sign(y) = -1 THEN -1 ELSE 1, 0, 1)
  ELSE LET d == IF Den(x) >= Den(y) THEN Den(x) ELSE Den(y)
           a == SafeMul(Num(x), d \div Den(x))
           b == SafeMul(Num(y), d \div Den(y))
       IN IF a < 0 \/ b < 0 THEN Inexact
          ELSE LET sum == Sign(x) * a + Sign(y) * b
               IN IF sum = 0 THEN Fin(1, 0, 1)
                  ELSE IF sum > 0 THEN MkFin(1, sum, d)
                  ELSE MkFin(-1, -sum, d)

\* left * right.
FMul(x, y) ==
  IF Kind(x) = "nan" \/ Kind(y) = "nan" THEN NaN
  ELSE IF Kind(x) = "inf" \/ Kind(y) = "inf"
       THEN (IF IsZero(x) \/ IsZero(y) THEN NaN ELSE Inf(Sign(x) * Sign(y)))
  ELSE LET n == SafeMul(Num(x), Num(y))
           d == SafeMul(Den(x), Den(y))
       IN IF n < 0 \/ d < 0 THEN Inexact ELSE MkFin(Sign(x) * Sign(y), n, d)

\* left / right: a division by zero is not trapped.
FDiv(x, y) ==
  IF Kind(x) = "nan" \/ Kind(y) = "nan" THEN NaN
  ELSE IF Kind(x) = "inf"
       THEN (IF Kind(y) = "inf" THEN NaN ELSE Inf(Sign(x) * Sign(y)))
  ELSE IF Kind(y) = "inf" THEN Fin(Sign(x) * Sign(y), 0, 1)
  ELSE IF IsZero(y)
       THEN (IF IsZero(x) THEN NaN ELSE Inf(Sign(x) * Sign(y)))
  ELSE LET n == SafeMul(Num(x), Den(y))
           d == SafeMul(Den(x), Num(y))
       IN IF n < 0 \/ d < 0 THEN Inexact ELSE MkFin(Sign(x) * Sign(y), n, d)

\* b^e for naturals, or -1 beyond the range the model multiplies out.
RECURSIVE IntPow(_, _)
IntPow(b, e) ==
  IF e = 0 \/ b = 1 THEN 1
  ELSE IF e > 31 THEN -1
  ELSE LET p == IntPow(b, e - 1)
       IN IF p < 0 THEN -1 ELSE SafeMul(p, b)

\* left.powf(right) (C99 F.9.4.4 for the special cases).
FPow(x, y) ==
  IF Kind(x) = "nan" \/ Kind(y) = "nan" THEN NaN
  ELSE IF IsZero(x)
       THEN (IF Sign(y) = -1
             THEN Inf(IF IsOddInteger(y) THEN Sign(x) ELSE 1)
             ELSE Fin(IF IsOddInteger(y) THEN Sign(x) ELSE 1, 0, 1))
  ELSE IF Kind(y) = "inf"
       THEN (IF Kind(x) = "fin" /\ Num(x) = Den(x) THEN Fin(1, 1, 1)
             ELSE IF (Kind(x) = "fin" /\ Num(x) < Den(x)) <=> (Sign(y) = 1)
                  THEN Fin(1, 0, 1) ELSE Inf(1))
  ELSE IF Kind(x) = "inf"
       THEN (LET s == IF Sign(x) = -1 /\ IsOddInteger(y) THEN -1 ELSE 1
             IN IF Sign(y) = -1 THEN Fin(s, 0, 1) ELSE Inf(s))
  ELSE IF ~IsInteger(y)
       THEN (IF Sign(x) = -1 THEN NaN ELSE Inexact)
  ELSE LET s == IF Sign(x) = -1 /\ IsOddInteger(y) THEN -1 ELSE 1
           n == IntPow(Num(x), Num(y))
           d == IntPow(Den(x), Num(y))
       IN IF n < 0 \/ d < 0 THEN Inexact
          ELSE IF Sign(y) = 1 THEN MkFin(s, n, d) ELSE MkFin(s, d, n)

(***************************************************************************)
(* Token, Operator, Parenthesis, Associativity (main.rs 3-60).             *)
(***************************************************************************)
Number(n) == <<"Number", n>>
Operator(k) == <<"Operator", k>>
Parenthesis(p) == <<"Parenthesis", p>>

IsNumber(t) == t[1] = "Number"
IsOperator(t) == t[1] = "Operator"
IsParenthesis(t) == t[1] = "Parenthesis"

\* precedence with Multiply and Divide ranked with Add and Subtract.
precedence_flat(operator) ==
  CASE operator \in {"Add", "Subtract", "Multiply", "Divide"} -> 1
    [] operator = "Power" -> 3

precedence(operator) ==
  CASE operator \in {"Add", "Subtract"} -> 1
    [] operator \in {"Multiply", "Divide"} -> 2
    [] operator = "Power" -> 3

\* associativity with Power grouping to the left like the others.
associativity_all_left(operator) == "Left"

associativity(operator) ==
  CASE operator \in {"Add", "Subtract", "Multiply", "Divide"} -> "Left"
    [] operator = "Power" -> "Right"

is_left(a) == a = "Left"

is_right(a) == a = "Right"

(***************************************************************************)
(* The arithmetic of evaluate_rpn's inner match (main.rs 110-116).         *)
(***************************************************************************)
Compute(operator, left, right) ==
  CASE operator = "Add" -> FAdd(left, right)
    [] operator = "Subtract" -> FAdd(left, Neg(right))
    [] operator = "Multiply" -> FMul(left, right)
    [] operator = "Divide" -> FDiv(left, right)
    [] operator = "Power" -> FPow(left, right)

Apply(operator, left, right) ==
  IF operator = "Power" /\ (IsZero(right) \/ IsOne(left)) THEN Fin(1, 1, 1)
  ELSE IF Kind(left) = "sym" \/ Kind(right) = "sym"
       THEN Sym(operator, left, right)
  ELSE LET r == Compute(operator, left, right)
       IN IF r = Inexact THEN Sym(operator, left, right) ELSE r

(***************************************************************************)
(* str::parse::<f32> on a lexeme of digits, '.' and ',' (main.rs 185-187). *)
(***************************************************************************)
DigitChars == {"0", "1", "2", "3", "4", "5", "6", "7", "8", "9"}

DigitValue(c) ==
  CASE c = "0" -> 0 [] c = "1" -> 1 [] c = "2" -> 2 [] c = "3" -> 3
    [] c = "4" -> 4 [] c = "5" -> 5 [] c = "6" -> 6 [] c = "7" -> 7
    [] c = "8" -> 8 [] c = "9" -> 9

IsDigit(c) == c \in DigitChars

IsDot(c) == c = "."

\* Digits, with at most one '.', and at least one digit: "1.", ".5" parse,
\* ".", "1.2.3" and anything with a ',' do not.
ParseOk(lexeme) ==
  /\ \A k \in 1..Len(lexeme) : IsDigit(lexeme[k]) \/ IsDot(lexeme[k])
  /\ Len(SelectSeq(lexeme, IsDot)) <= 1
  /\ Len(SelectSeq(lexeme, IsDigit)) >= 1

\* The digits' value, or -1 beyond the range the model multiplies out.
RECURSIVE DecimalValue(_)
DecimalValue(digits) ==
  IF digits = <<>> THEN 0
  ELSE LET hi == DecimalValue(SubSeq(digits, 1, Len(digits) - 1))
           t == SafeMul(hi, 10)
       IN IF hi < 0 \/ t < 0 THEN -1 ELSE t + DigitValue(digits[Len(digits)])

RECURSIVE FractionDigits(_)
FractionDigits(lexeme) ==
  IF lexeme = <<>> \/ IsDot(lexeme[Len(lexeme)]) THEN 0
  ELSE IF \E k \in 1..Len(lexeme) : IsDot(lexeme[k])
       THEN 1 + FractionDigits(SubSeq(lexeme, 1, Len(lexeme) - 1))
       ELSE 0

ParseValue(lexeme) ==
  LET n == DecimalValue(SelectSeq(lexeme, IsDigit))
      d == IntPow(10, FractionDigits(lexeme))
  IN IF n < 0 \/ d < 0 THEN Sym("ParseLexeme", lexeme, <<>>)
     ELSE LET v == MkFin(1, n, d)
              g == Gcd(n, d)
          IN IF v = Inexact THEN Sym("ParseDecimal", <<n \div g, d \div g>>, <<>>)
             ELSE v

(***************************************************************************)
(* tokenise (main.rs 126-191).  A scanner state is the pair the closure    *)
(* captures, and the panic it may have raised.                             *)
(***************************************************************************)
ScanState(toks, buffer, err) ==
  [tokens |-> toks, number_buffer |-> buffer, error |-> err]

empty_number_buffer(s) ==
  IF s.number_buffer # <<>>
  THEN IF ParseOk(s.number_buffer)
       THEN ScanState(Append(s.tokens, Number(ParseValue(s.number_buffer))),
                      <<>>, s.error)
       ELSE ScanState(s.tokens, s.number_buffer, "InvalidNumber")
  ELSE s

\* Its assert! holds at every call: tokenise passes only Operator and
\* Parenthesis tokens.
push_non_number(s, token) ==
  LET e == empty_number_buffer(s)
  IN IF e.error # "none" THEN e
     ELSE ScanState(Append(e.tokens, token), e.number_buffer, e.error)

\* tokenise_char with the buffer flushed at a skipped character too.
tokenise_char_flushing(s, c) ==
  CASE IsDigit(c) \/ c = "." \/ c = "," ->
         ScanState(s.tokens, Append(s.number_buffer, c), s.error)
    [] c = "+" -> push_non_number(s, Operator("Add"))
    [] c = "-" -> push_non_number(s, Operator("Subtract"))
    [] c = "*" -> push_non_number(s, Operator("Multiply"))
    [] c = "/" \/ c = ":" -> push_non_number(s, Operator("Divide"))
    [] c = "^" -> push_non_number(s, Operator("Power"))
    [] c = "(" -> push_non_number(s, Parenthesis("Left"))
    [] c = ")" -> push_non_number(s, Parenthesis("Right"))
    [] OTHER -> empty_number_buffer(s)

\* The closure of tokenise's for_each: one character.
tokenise_char(s, c) ==
  CASE IsDigit(c) \/ c = "." \/ c = "," ->
         ScanState(s.tokens, Append(s.number_buffer, c), s.error)
    [] c = "+" -> push_non_number(s, Operator("Add"))
    [] c = "-" -> push_non_number(s, Operator("Subtract"))
    [] c = "*" -> push_non_number(s, Operator("Multiply"))
    [] c = "/" \/ c = ":" -> push_non_number(s, Operator("Divide"))
    [] c = "^" -> push_non_number(s, Operator("Power"))
    [] c = "(" -> push_non_number(s, Parenthesis("Left"))
    [] c = ")" -> push_non_number(s, Parenthesis("Right"))
    [] OTHER -> s

RECURSIVE tokenise_from(_, _, _)
tokenise_from(s, str, k) ==
  IF s.error # "none" THEN s
  ELSE IF k > Len(str) THEN empty_number_buffer(s)
  ELSE tokenise_from(tokenise_char(s, str[k]), str, k + 1)

tokenise(str) == tokenise_from(ScanState(<<>>, <<>>, "none"), str, 1)


(***************************************************************************)
(* shunting_yard (main.rs 64-99).  Vec::last / pop / push act on the end   *)
(* of the sequence.                                                        *)
(***************************************************************************)
YardState(out, stk, err) == [output |-> out, stack |-> stk, error |-> err]

Top(stk) == stk[Len(stk)]

Pop(stk) == SubSeq(stk, 1, Len(stk) - 1)

\* pops_top with < for <= in the left-associative case.
pops_top_strict(operator, top) ==
  \/ is_left(associativity(operator)) /\ precedence(operator) < precedence(top)
  \/ is_right(associativity(operator)) /\ precedence(operator) < precedence(top)

\* The condition of the if inside the while let (main.rs 71-72).
pops_top(operator, top) ==
  \/ is_left(associativity(operator)) /\ precedence(operator) <= precedence(top)
  \/ is_right(associativity(operator)) /\ precedence(operator) < precedence(top)

\* pop_operators with the popped operator not pushed to the output.
RECURSIVE pop_operators_dropping(_, _)
pop_operators_dropping(s, operator) ==
  IF s.stack # <<>> /\ IsOperator(Top(s.stack))
     /\ pops_top(operator, Top(s.stack)[2])
  THEN pop_operators_dropping(YardState(s.output, Pop(s.stack), s.error),
                              operator)
  ELSE s

\* The while let of the Operator arm (main.rs 70-78).
RECURSIVE pop_operators(_, _)
pop_operators(s, operator) ==
  IF s.stack # <<>> /\ IsOperator(Top(s.stack))
     /\ pops_top(operator, Top(s.stack)[2])
  THEN pop_operators(YardState(Append(s.output, Top(s.stack)), Pop(s.stack),
                               s.error), operator)
  ELSE s

\* pop_to_left with the push before the test: the left parenthesis reaches
\* the output.
RECURSIVE pop_to_left_keeping(_)
pop_to_left_keeping(s) ==
  IF s.stack = <<>> THEN YardState(s.output, s.stack, "MismatchedParentheses")
  ELSE IF Top(s.stack) = Parenthesis("Left")
       THEN YardState(Append(s.output, Top(s.stack)), Pop(s.stack), s.error)
  ELSE pop_to_left_keeping(YardState(Append(s.output, Top(s.stack)),
                                     Pop(s.stack), s.error))

\* The loop of the Parenthesis::Right arm (main.rs 83-89).
RECURSIVE pop_to_left(_)
pop_to_left(s) ==
  IF s.stack = <<>> THEN YardState(s.output, s.stack, "MismatchedParentheses")
  ELSE IF Top(s.stack) = Parenthesis("Left")
       THEN YardState(s.output, Pop(s.stack), s.error)
  ELSE pop_to_left(YardState(Append(s.output, Top(s.stack)), Pop(s.stack),
                             s.error))

\* The closure of shunting_yard's for_each: one token.
shunting_yard_token(s, token) ==
  CASE IsOperator(token) ->
         LET p == pop_operators(s, token[2])
         IN YardState(p.output, Append(p.stack, token), p.error)
    [] IsParenthesis(token) /\ token[2] = "Left" ->
         YardState(s.output, Append(s.stack, token), s.error)
    [] IsParenthesis(token) /\ token[2] = "Right" -> pop_to_left(s)
    [] IsNumber(token) -> YardState(Append(s.output, token), s.stack, s.error)

\* The while let after the for_each (main.rs 94-96).
RECURSIVE shunting_yard_drain(_)
shunting_yard_drain(s) ==
  IF s.stack = <<>> THEN s
  ELSE shunting_yard_drain(YardState(Append(s.output, Top(s.stack)),
                                     Pop(s.stack), s.error))

RECURSIVE shunting_yard_from(_, _, _)
shunting_yard_from(s, toks, k) ==
  IF s.error # "none" THEN s
  ELSE IF k > Len(toks) THEN shunting_yard_drain(s)
  ELSE shunting_yard_from(shunting_yard_token(s, toks[k]), toks, k + 1)

shunting_yard(toks) == shunting_yard_from(YardState(<<>>, <<>>, "none"), toks, 1)

(***************************************************************************)
(* evaluate_rpn (main.rs 102-123).                                         *)
(***************************************************************************)
RpnState(stk, err) == [stack |-> stk, error |-> err]

\* evaluate_rpn_token with the operands taken in the other order.
evaluate_rpn_token_swapped(s, token) ==
  CASE IsNumber(token) -> RpnState(Append(s.stack, token[2]), s.error)
    [] IsOperator(token) ->
         IF s.stack = <<>> THEN RpnState(s.stack, "InvalidExpression")
         ELSE IF Len(s.stack) = 1
              THEN RpnState(Pop(s.stack), "InvalidExpression")
         ELSE LET left == Top(s.stack)
                  right == Top(Pop(s.stack))
              IN RpnState(Append(Pop(Pop(s.stack)),
                                 Apply(token[2], left, right)), s.error)
    [] OTHER -> RpnState(s.stack, "InvalidExpression")

\* evaluate_rpn_token with the left operand read by last() and left on the
\* stack.
evaluate_rpn_token_peek(s, token) ==
  CASE IsNumber(token) -> RpnState(Append(s.stack, token[2]), s.error)
    [] IsOperator(token) ->
         IF s.stack = <<>> THEN RpnState(s.stack, "InvalidExpression")
         ELSE IF Len(s.stack) = 1
              THEN RpnState(Pop(s.stack), "InvalidExpression")
         ELSE LET right == Top(s.stack)
                  left == Top(Pop(s.stack))
              IN RpnState(Append(Pop(s.stack),
                                 Apply(token[2], left, right)), s.error)
    [] OTHER -> RpnState(s.stack, "InvalidExpression")

\* No value: the run has not returned one.
NoResult == <<>>

\* The closure of evaluate_rpn's for_each: one token.
evaluate_rpn_token(s, token) ==
  CASE IsNumber(token) -> RpnState(Append(s.stack, token[2]), s.error)
    [] IsOperator(token) ->
         IF s.stack = <<>> THEN RpnState(s.stack, "InvalidExpression")
         ELSE IF Len(s.stack) = 1
              THEN RpnState(Pop(s.stack), "InvalidExpression")
         ELSE LET right == Top(s.stack)
                  left == Top(Pop(s.stack))
              IN RpnState(Append(Pop(Pop(s.stack)),
                                 Apply(token[2], left, right)), s.error)
    [] OTHER -> RpnState(s.stack, "InvalidExpression")

\* evaluate_rpn_end with unwrap_or(0.0) for expect.
evaluate_rpn_end_default(s) ==
  IF s.stack = <<>>
  THEN [stack |-> s.stack, result |-> Fin(1, 0, 1), error |-> s.error]
  ELSE [stack |-> Pop(s.stack), result |-> Top(s.stack), error |-> s.error]

\* The pop after the for_each (main.rs 122): the value returned and the panic.
evaluate_rpn_end(s) ==
  IF s.stack = <<>>
  THEN [stack |-> s.stack, result |-> NoResult, error |-> "InvalidExpression"]
  ELSE [stack |-> Pop(s.stack), result |-> Top(s.stack), error |-> s.error]

RECURSIVE evaluate_rpn_from(_, _, _)
evaluate_rpn_from(s, toks, k) ==
  IF s.error # "none"
  THEN [stack |-> s.stack, result |-> NoResult, error |-> s.error]
  ELSE IF k > Len(toks) THEN evaluate_rpn_end(s)
  ELSE evaluate_rpn_from(evaluate_rpn_token(s, toks[k]), toks, k + 1)

evaluate_rpn(toks) == evaluate_rpn_from(RpnState(<<>>, "none"), toks, 1)

\* evaluate_rpn(shunting_yard(tokenise(expression))) of main and of the tests'
\* evaluate_expression: the value, or the panic that ended the run.
evaluate_expression(str) ==
  LET t == tokenise(str)
  IN IF t.error # "none" THEN [result |-> NoResult, error |-> t.error]
     ELSE LET y == shunting_yard(t.tokens)
          IN IF y.error # "none" THEN [result |-> NoResult, error |-> y.error]
             ELSE LET e == evaluate_rpn(y.output)
                  IN [result |-> e.result, error |-> e.error]


(***************************************************************************)
(* The expressions the runs start from.                                    *)
(***************************************************************************)
\* One character of every class tokenise's match tells apart.
Alphabet ==
  {"1", "2", ".", ",", "+", "-", "*", "/", ":", "^", "(", ")", " "}

\* The characters of the expressions the specification and the tests name.
CoreAlphabet == {"1", "2", "+", "-", "*", "(", ")", " "}

\* Every string over Alphabet shorter than MaxLen, and every string over
\* CoreAlphabet of at most MaxLen characters.
Strings ==
  (UNION {[1..n -> Alphabet] : n \in 0..(MaxLen - 1)})
  \cup (UNION {[1..n -> CoreAlphabet] : n \in 0..MaxLen})

\* Strings whose tokens exercise every arm of shunting_yard.
YardAlphabet == {"1", "+", "*", "^", "(", ")"}

YardStrings == UNION {[1..n -> YardAlphabet] : n \in 0..MaxYardLen}

Literals == {<<"0">>, <<"2">>, <<"3">>}

OperatorChars == {"+", "-", "*", "/", "^"}

\* The well-formed expressions whose derivation by
\*     expr ::= number | expr op expr | '(' expr ')'
\* takes n steps (one per number, operator and pair of parentheses).
RECURSIVE WellFormed(_)
WellFormed(n) ==
  IF n = 1 THEN Literals
  ELSE {<<"(">> \o e \o <<")">> : e \in WellFormed(n - 1)}
       \cup UNION {{l \o <<o>> \o r :
                      l \in WellFormed(a), r \in WellFormed(n - 1 - a),
                      o \in OperatorChars} : a \in 1..(n - 2)}

WellFormedExpressions == UNION {WellFormed(n) : n \in 1..MaxNodes}

(***************************************************************************)
(* The run of main (main.rs 193-197): evaluate_rpn(shunting_yard(          *)
(* tokenise(expression))), a panic ending it.                              *)
(***************************************************************************)
Start ==
  /\ pc = "tokenise"
  /\ i = 1
  /\ number_buffer = <<>>
  /\ tokens = <<>>
  /\ output = <<>>
  /\ stack = <<>>
  /\ values = <<>>
  /\ result = NoResult
  /\ error = "none"

Init == expression \in Strings /\ Start

InitWellFormed == expression \in WellFormedExpressions /\ Start

InitYard == expression \in YardStrings /\ Start

\* tokenise's closure on the next character.
TokeniseChar ==
  /\ pc = "tokenise"
  /\ i <= Len(expression)
  /\ LET s == tokenise_char(ScanState(tokens, number_buffer, "none"),
                            expression[i])
     IN /\ tokens' = s.tokens
        /\ number_buffer' = s.number_buffer
        /\ error' = s.error
        /\ pc' = IF s.error = "none" THEN "tokenise" ELSE "panicked"
  /\ i' = i + 1
  /\ UNCHANGED <<expression, output, stack, values, result>>

\* tokenise's last flush and return; shunting_yard starts.
TokeniseEnd ==
  /\ pc = "tokenise"
  /\ i > Len(expression)
  /\ LET s == empty_number_buffer(ScanState(tokens, number_buffer, "none"))
     IN /\ tokens' = s.tokens
        /\ number_buffer' = s.number_buffer
        /\ error' = s.error
        /\ pc' = IF s.error = "none" THEN "shunting_yard" ELSE "panicked"
  /\ i' = 1
  /\ UNCHANGED <<expression, output, stack, values, result>>

\* shunting_yard's closure on the next token.
ShuntingYardToken ==
  /\ pc = "shunting_yard"
  /\ i <= Len(tokens)
  /\ LET s == shunting_yard_token(YardState(output, stack, "none"), tokens[i])
     IN /\ output' = s.output
        /\ stack' = s.stack
        /\ error' = s.error
        /\ pc' = IF s.error = "none" THEN "shunting_yard" ELSE "panicked"
  /\ i' = i + 1
  /\ UNCHANGED <<expression, number_buffer, tokens, values, result>>

\* shunting_yard drains its stack and returns; evaluate_rpn starts.
ShuntingYardEnd ==
  /\ pc = "shunting_yard"
  /\ i > Len(tokens)
  /\ LET s == shunting_yard_drain(YardState(output, stack, "none"))
     IN /\ output' = s.output
        /\ stack' = s.stack
  /\ pc' = "evaluate_rpn"
  /\ i' = 1
  /\ UNCHANGED <<expression, number_buffer, tokens, values, result, error>>

\* evaluate_rpn's closure on the next token.
EvaluateRpnToken ==
  /\ pc = "evaluate_rpn"
  /\ i <= Len(output)
  /\ LET s == evaluate_rpn_token(RpnState(values, "none"), output[i])
     IN /\ values' = s.stack
        /\ error' = s.error
        /\ pc' = IF s.error = "none" THEN "evaluate_rpn" ELSE "panicked"
  /\ i' = i + 1
  /\ UNCHANGED <<expression, number_buffer, tokens, output, stack, result>>

\* evaluate_rpn pops the value it returns.
EvaluateRpnEnd ==
  /\ pc = "evaluate_rpn"
  /\ i > Len(output)
  /\ LET s == evaluate_rpn_end(RpnState(values, "none"))
     IN /\ values' = s.stack
        /\ result' = s.result
        /\ error' = s.error
        /\ pc' = IF s.error = "none" THEN "done" ELSE "panicked"
  /\ UNCHANGED <<expression, i, number_buffer, tokens, output, stack>>

Next ==
  \/ TokeniseChar
  \/ TokeniseEnd
  \/ ShuntingYardToken
  \/ ShuntingYardEnd
  \/ EvaluateRpnToken
  \/ EvaluateRpnEnd

Spec == Init /\ [][Next]_vars

SpecWellFormed == InitWellFormed /\ [][Next]_vars

SpecYard == InitYard /\ [][Next]_vars
(***************************************************************************)
(* Shared vocabulary of the properties.                                    *)
(***************************************************************************)
Terminal == pc \in {"done", "panicked"}

\* The operator a character of a well-formed expression stands for.
OperatorOf(c) ==
  CASE c = "+" -> "Add" [] c = "-" -> "Subtract" [] c = "*" -> "Multiply"
    [] c = "/" -> "Divide" [] c = "^" -> "Power"

\* The scalar of a one-digit literal.
LiteralValue(c) == Fin(1, DigitValue(c), 1)

\* expression is  a o1 b o2 c  with one-digit literals a, b, c.
IsTriple(e) ==
  /\ Len(e) = 5
  /\ IsDigit(e[1]) /\ IsDigit(e[3]) /\ IsDigit(e[5])
  /\ e[2] \in OperatorChars /\ e[4] \in OperatorChars

\* (a o1 b) o2 c  and  a o1 (b o2 c)  for e = a o1 b o2 c.
GroupLeft(e) == <<"(", e[1], e[2], e[3], ")", e[4], e[5]>>

GroupRight(e) == <<e[1], e[2], "(", e[3], e[4], e[5], ")">>

ValueLeft(e) ==
  Apply(OperatorOf(e[4]),
        Apply(OperatorOf(e[2]), LiteralValue(e[1]), LiteralValue(e[3])),
        LiteralValue(e[5]))

ValueRight(e) ==
  Apply(OperatorOf(e[2]), LiteralValue(e[1]),
        Apply(OperatorOf(e[4]), LiteralValue(e[3]), LiteralValue(e[5])))

\* The run on expression ended as the pipeline ends on the string other,
\* with the same postfix sequence out of shunting_yard.
SameAs(other) ==
  /\ evaluate_expression(other) = [result |-> result, error |-> error]
  /\ shunting_yard(tokenise(other).tokens).output = output

Additive == {"+", "-"}

Multiplicative == {"*", "/"}

(***************************************************************************)
(* C1  Precedence: a+b*c evaluates as a+(b*c) and a*b+c as (a*b)+c, for    *)
(* every additive and multiplicative operator in either order: the         *)
(* pipeline on the bare string ends with the value and the postfix         *)
(* sequence it ends with on the parenthesised string, the multiplicative   *)
(* operator applied first.                                                 *)
(***************************************************************************)
C1_Precedence ==
  (Terminal /\ IsTriple(expression)) =>
     /\ (expression[2] \in Additive /\ expression[4] \in Multiplicative) =>
          (pc = "done" /\ SameAs(GroupRight(expression))
           /\ result = ValueRight(expression))
     /\ (expression[2] \in Multiplicative /\ expression[4] \in Additive) =>
          (pc = "done" /\ SameAs(GroupLeft(expression))
           /\ result = ValueLeft(expression))

\* 2+3*2 has been evaluated, to 8.
C1_Witness ==
  /\ pc = "done"
  /\ expression = <<"2", "+", "3", "*", "2">>
  /\ result = Fin(1, 8, 1)

(***************************************************************************)
(* C2  Left-associativity: for o1, o2 both additive or both                *)
(* multiplicative, a o1 b o2 c evaluates as (a o1 b) o2 c: same value,     *)
(* same postfix sequence, the left operator applied first.                 *)
(***************************************************************************)
C2_LeftAssociativity ==
  (Terminal /\ IsTriple(expression)
   /\ (\/ {expression[2], expression[4]} \subseteq Additive
       \/ {expression[2], expression[4]} \subseteq Multiplicative)) =>
     /\ pc = "done"
     /\ SameAs(GroupLeft(expression))
     /\ result = ValueLeft(expression)

\* 3-2-2 has been evaluated, to -1 (3-(2-2) would be 3).
C2_Witness ==
  /\ pc = "done"
  /\ expression = <<"3", "-", "2", "-", "2">>
  /\ result = Fin(-1, 1, 1)

(***************************************************************************)
(* C3  Right-associativity of Power: a^b^c evaluates as a^(b^c), the       *)
(* postfix sequence being a b c ^ ^, and 2^3^2 yields 512.                 *)
(***************************************************************************)
C3_RightAssociativity ==
  (Terminal /\ IsTriple(expression)
   /\ expression[2] = "^" /\ expression[4] = "^") =>
     /\ pc = "done"
     /\ SameAs(GroupRight(expression))
     /\ result = ValueRight(expression)
     /\ output = <<Number(LiteralValue(expression[1])),
                   Number(LiteralValue(expression[3])),
                   Number(LiteralValue(expression[5])),
                   Operator("Power"), Operator("Power")>>
     /\ (expression = <<"2", "^", "3", "^", "2">> => result = Fin(1, 512, 1))

\* 2^3^2 has been evaluated, to 512.
C3_Witness ==
  /\ pc = "done"
  /\ expression = <<"2", "^", "3", "^", "2">>
  /\ result = Fin(1, 512, 1)
  /\ output[4] = Operator("Power") /\ output[5] = Operator("Power")
\* Left parentheses minus right parentheses among the first k characters.
RECURSIVE Depth(_, _)
Depth(str, k) ==
  IF k = 0 THEN 0
  ELSE Depth(str, k - 1)
       + (IF str[k] = "(" THEN 1 ELSE IF str[k] = ")" THEN -1 ELSE 0)

\* Some right parenthesis has no left one before it to match.
UnmatchedRight(str) == \E k \in 1..Len(str) : Depth(str, k) < 0

\* Every right parenthesis is matched and some left one is never closed.
UnclosedLeft(str) == ~UnmatchedRight(str) /\ Depth(str, Len(str)) > 0

(***************************************************************************)
(* C4  Mismatched-parenthesis detection: an expression with an unclosed    *)
(* left parenthesis ("(1+2") and one with a right parenthesis that has no  *)
(* matching left ("1+2)") both fail, with MismatchedParentheses and no     *)
(* other error kind.  (A lexeme that does not parse fails earlier, in      *)
(* tokenise, and is left out.)                                             *)
(***************************************************************************)
C4_MismatchedParentheses ==
  (Terminal /\ error # "InvalidNumber"
   /\ (UnclosedLeft(expression) \/ UnmatchedRight(expression))) =>
     (pc = "panicked" /\ error = "MismatchedParentheses")

BufferChars == DigitChars \cup {".", ","}

SymbolChars == {"+", "-", "*", "/", ":", "^", "(", ")"}

\* The token of an operator or parenthesis symbol (section 4.1 of the
\* specification).
SymbolToken(c) ==
  CASE c = "+" -> Operator("Add")
    [] c = "-" -> Operator("Subtract")
    [] c = "*" -> Operator("Multiply")
    [] c = "/" \/ c = ":" -> Operator("Divide")
    [] c = "^" -> Operator("Power")
    [] c = "(" -> Parenthesis("Left")
    [] c = ")" -> Parenthesis("Right")

Scanning == pc = "tokenise" /\ i <= Len(expression)

(***************************************************************************)
(* C5  Scanner flush rule, as stated: every character that is not a        *)
(* digit or a decimal separator, a skipped one included, read while the    *)
(* buffer is not empty flushes it as one Number token, so that "1 2"       *)
(* scans to [Number(1), Number(2)] and evaluates to 2.                     *)
(***************************************************************************)
C5_FlushOnEveryOtherCharacter ==
  [][/\ (Scanning /\ expression[i] \notin BufferChars
         /\ number_buffer # <<>> /\ ParseOk(number_buffer)) =>
          /\ number_buffer' = <<>>
          /\ Len(tokens') > Len(tokens)
          /\ SubSeq(tokens', 1, Len(tokens) + 1)
               = Append(tokens, Number(ParseValue(number_buffer)))
     /\ (pc' \in {"done", "panicked"} /\ expression = <<"1", " ", "2">>) =>
          /\ tokens' = <<Number(Fin(1, 1, 1)), Number(Fin(1, 2, 1))>>
          /\ result' = Fin(1, 2, 1)
    ]_vars

(***************************************************************************)
(* C5  Scanner flush rule, amended: an operator or parenthesis symbol      *)
(* read while the buffer is not empty flushes the buffer as one Number     *)
(* token before its own token (a lexeme that does not parse ends the run   *)
(* with InvalidNumber); a skipped character leaves buffer and tokens as    *)
(* they are, so that "1 2" scans to [Number(12)] and evaluates to 12.      *)
(***************************************************************************)
C5_FlushOnSymbol ==
  [][/\ (Scanning /\ expression[i] \in SymbolChars /\ number_buffer # <<>>) =>
          IF ParseOk(number_buffer)
          THEN /\ number_buffer' = <<>>
               /\ tokens' = tokens \o <<Number(ParseValue(number_buffer)),
                                        SymbolToken(expression[i])>>
               /\ pc' = "tokenise"
          ELSE pc' = "panicked" /\ error' = "InvalidNumber"
     /\ (Scanning /\ expression[i] \notin (SymbolChars \cup BufferChars)) =>
          UNCHANGED <<number_buffer, tokens, pc>>
     /\ (pc' \in {"done", "panicked"} /\ expression = <<"1", " ", "2">>) =>
          /\ tokens' = <<Number(Fin(1, 12, 1))>>
          /\ result' = Fin(1, 12, 1)
    ]_vars

\* "1 2" has been scanned to the one token Number(12) and evaluated to 12.
C5_Witness ==
  /\ pc = "done"
  /\ expression = <<"1", " ", "2">>
  /\ tokens = <<Number(Fin(1, 12, 1))>>
  /\ result = Fin(1, 12, 1)

\* The step ends the run with InvalidExpression and no value.
Fails == pc' = "panicked" /\ error' = "InvalidExpression" /\ result' = NoResult

(***************************************************************************)
(* C6  Evaluator error outcomes: evaluate_rpn fails with InvalidExpression *)
(* and returns no value when it reaches an Operator with fewer than two    *)
(* values on the stack, when it meets a Parenthesis, and when the stack is *)
(* empty after the last token; "1+", "" and "-1" so fail.                  *)
(***************************************************************************)
C6_EvaluatorErrors ==
  [][/\ (pc = "evaluate_rpn" /\ i <= Len(output)
         /\ (\/ IsOperator(output[i]) /\ Len(values) < 2
             \/ IsParenthesis(output[i]))) => Fails
     /\ (pc = "evaluate_rpn" /\ i > Len(output) /\ values = <<>>) => Fails
     /\ (pc' \in {"done", "panicked"}
         /\ expression \in {<<"1", "+">>, <<>>, <<"-", "1">>}) => Fails
    ]_vars

\* "1+" has failed in evaluate_rpn, at the operator, one value on the stack
\* before it.
C6_Witness ==
  /\ pc = "panicked"
  /\ error = "InvalidExpression"
  /\ expression = <<"1", "+">>
  /\ output = <<Number(Fin(1, 1, 1)), Operator("Add")>>
  /\ i = 3

Count(seq, t) == Cardinality({k \in 1..Len(seq) : seq[k] = t})

IsLeft(t) == t = Parenthesis("Left")

IsRight(t) == t = Parenthesis("Right")

RECURSIVE TokenDepth(_, _)
TokenDepth(toks, k) ==
  IF k = 0 THEN 0
  ELSE TokenDepth(toks, k - 1)
       + (IF IsLeft(toks[k]) THEN 1 ELSE IF IsRight(toks[k]) THEN -1 ELSE 0)

Balanced(toks) ==
  /\ \A k \in 1..Len(toks) : TokenDepth(toks, k) >= 0
  /\ TokenDepth(toks, Len(toks)) = 0

\* shunting_yard has returned in this run.
YardReturned ==
  \/ pc \in {"evaluate_rpn", "done"}
  \/ pc = "panicked" /\ error = "InvalidExpression"

(***************************************************************************)
(* C9  Token conservation: when shunting_yard returns, its output holds    *)
(* each Number and Operator token as often as the input does, the Number   *)
(* tokens in the input's order, and no right parenthesis; on an input      *)
(* with balanced parentheses it holds no parenthesis at all; the operator  *)
(* stack is empty.                                                         *)
(***************************************************************************)
C9_TokenConservation ==
  YardReturned =>
     /\ \A k \in 1..Len(tokens) :
          ~IsParenthesis(tokens[k]) =>
             Count(output, tokens[k]) = Count(tokens, tokens[k])
     /\ \A k \in 1..Len(output) :
          ~IsParenthesis(output[k]) =>
             Count(output, output[k]) = Count(tokens, output[k])
     /\ SelectSeq(output, IsNumber) = SelectSeq(tokens, IsNumber)
     /\ \A k \in 1..Len(output) : ~IsRight(output[k])
     /\ stack = <<>>
     /\ Balanced(tokens) => \A k \in 1..Len(output) : ~IsParenthesis(output[k])

\* shunting_yard has returned 1 1 + for (1+1), its stack empty.
C9_Witness ==
  /\ pc = "evaluate_rpn"
  /\ expression = <<"(", "1", "+", "1", ")">>
  /\ output = <<Number(Fin(1, 1, 1)), Number(Fin(1, 1, 1)), Operator("Add")>>
  /\ stack = <<>>
\* str with characters a..b wrapped in a pair of parentheses.
Wrap(str, a, b) ==
  SubSeq(str, 1, a - 1) \o <<"(">> \o SubSeq(str, a, b) \o <<")">>
    \o SubSeq(str, b + 1, Len(str))

\* Characters a..b of str are a complete operand.
IsOperand(str, a, b) ==
  \/ a = b /\ IsDigit(str[a])
     /\ (a = 1 \/ ~IsDigit(str[a - 1]))
     /\ (a = Len(str) \/ ~IsDigit(str[a + 1]))
  \/ /\ a < b /\ str[a] = "(" /\ str[b] = ")"
     /\ Depth(str, b) = Depth(str, a - 1)
     /\ \A m \in a..(b - 1) : Depth(str, m) > Depth(str, a - 1)
  \/ a = 1 /\ b = Len(str)

IsGroupedLeft(e) ==
  /\ Len(e) = 7
  /\ e[1] = "(" /\ e[5] = ")"
  /\ IsDigit(e[2]) /\ IsDigit(e[4]) /\ IsDigit(e[7])
  /\ e[3] \in OperatorChars /\ e[6] \in OperatorChars

(***************************************************************************)
(* C7  Parenthesis neutrality: wrapping a complete operand of a            *)
(* well-formed expression (a literal, a parenthesised group, the whole     *)
(* expression) in parentheses leaves the value and the postfix sequence    *)
(* unchanged, and (a o1 b) o2 c evaluates with o1 applied first.           *)
(***************************************************************************)
C7_ParenthesisNeutrality ==
  Terminal =>
     /\ pc = "done"
     /\ \A a \in 1..Len(expression) : \A b \in a..Len(expression) :
          IsOperand(expression, a, b) => SameAs(Wrap(expression, a, b))
     /\ IsGroupedLeft(expression) =>
          result = Apply(OperatorOf(expression[6]),
                         Apply(OperatorOf(expression[3]),
                               LiteralValue(expression[2]),
                               LiteralValue(expression[4])),
                         LiteralValue(expression[7]))

\* (2+3)*2 has been evaluated, to 10.
C7_Witness ==
  /\ pc = "done"
  /\ expression = <<"(", "2", "+", "3", ")", "*", "2">>
  /\ result = Fin(1, 10, 1)
  /\ output = <<Number(Fin(1, 2, 1)), Number(Fin(1, 3, 1)), Operator("Add"),
                Number(Fin(1, 2, 1)), Operator("Multiply")>>

ReferencePrecedence(op) ==
  CASE op = "Add" -> 1 [] op = "Subtract" -> 1
    [] op = "Multiply" -> 2 [] op = "Divide" -> 2
    [] op = "Power" -> 3

ReferenceRightAssociative(op) == op = "Power"

\* Each returns [value, next]: the operand's value and the index of the
\* first token after it.
RECURSIVE ReferenceExpression(_, _, _)
RECURSIVE ReferenceClimb(_, _, _, _)

ReferencePrimary(toks, k) ==
  IF IsNumber(toks[k]) THEN [value |-> toks[k][2], next |-> k + 1]
  ELSE LET e == ReferenceExpression(toks, k + 1, 1)
       IN [value |-> e.value, next |-> e.next + 1]

ReferenceClimb(toks, left, k, min) ==
  IF k <= Len(toks) /\ IsOperator(toks[k])
     /\ ReferencePrecedence(toks[k][2]) >= min
  THEN LET op == toks[k][2]
           r == ReferenceExpression(toks, k + 1,
                  IF ReferenceRightAssociative(op)
                  THEN ReferencePrecedence(op)
                  ELSE ReferencePrecedence(op) + 1)
       IN ReferenceClimb(toks, Apply(op, left, r.value), r.next, min)
  ELSE [value |-> left, next |-> k]

ReferenceExpression(toks, k, min) ==
  LET p == ReferencePrimary(toks, k)
  IN ReferenceClimb(toks, p.value, p.next, min)

ReferenceValue(toks) == ReferenceExpression(toks, 1, 1).value

(***************************************************************************)
(* C8  Pipeline correctness against a reference: on a well-formed token    *)
(* sequence the pipeline returns the value of a reference evaluator that   *)
(* parses by precedence climbing with the table Add/Subtract 1,            *)
(* Multiply/Divide 2, Power 3, the first four operators grouping to the    *)
(* left and Power to the right, and computes left-op-right at every node.  *)
(***************************************************************************)
C8_MatchesReference ==
  Terminal => (pc = "done" /\ result = ReferenceValue(tokens))

\* 3-2/2 has been evaluated, to 2: the reference's 3 - (2 / 2).
C8_Witness ==
  /\ pc = "done"
  /\ expression = <<"3", "-", "2", "/", "2">>
  /\ result = Fin(1, 2, 1)
  /\ ReferenceValue(tokens) = Fin(1, 2, 1)

(***************************************************************************)
(* C10  Single final value: on a well-formed expression evaluate_rpn never *)
(* fails, finds at least two values on its stack at every Operator token,  *)
(* and exactly one after the last token, which it returns.                 *)
(***************************************************************************)
C10_SingleFinalValue ==
  [][/\ pc' # "panicked"
     /\ (pc = "evaluate_rpn" /\ i <= Len(output) /\ IsOperator(output[i])) =>
          Len(values) >= 2
     /\ (pc = "evaluate_rpn" /\ i > Len(output)) =>
          (Len(values) = 1 /\ pc' = "done" /\ result' = values[1])
    ]_vars

\* 2*(3+2) has been folded to the one value 10, which is returned.
C10_Witness ==
  /\ pc = "done"
  /\ expression = <<"2", "*", "(", "3", "+", "2", ")">>
  /\ values = <<>>
  /\ result = Fin(1, 10, 1)
====
